---- MODULE Spec2Model ----
(***************************************************************************)
(* RNAMotif: the family loop of main() (src/RNAMotif.cpp), an OpenMP       *)
(* parallel for over the Stockholm records, and the batch script           *)
(* (src/unnamed/part_000) that walks the family directories and counts     *)
(* the families it found an alignment for.                                  *)
(*                                                                         *)
(* The folding backends, the WUSS translator and the structure partitioner *)
(* live in headers that are not part of the available sources              *)
(* (RNAlib_utils.h, IPknot_utils.h, motif.h); they are modelled from the   *)
(* design document: the backends as functions of their arguments, the      *)
(* translator and the partitioner by what the document says they compute.  *)
(***************************************************************************)
EXTENDS Integers, Sequences, FiniteSets, TLC

\* ------------------------------------------------------------------ bounds
\* records in the input file
NumFamilies == 2
\* threads of the OpenMP team
NumWorkers == 2
\* alignment columns explored for the partitioner
MaxCols == 4

\* -------------------------------------------------------- program constants
\* if (seq_len > 1000)
Ceiling == 1000

Families == 1..NumFamilies
Workers  == 1..NumWorkers

\* the cutoff identifiers of the batch script, in hundredths
\* ("stats_0" "stats_0.02" ... "stats_0.2")
Cutoffs == <<0, 2, 4, 6, 8, 10, 12, 14, 16, 18, 20>>

\* ------------------------------------------------------------ value model
NULL == <<"NULL">>                       \* char *constraint_bracket = NULL
NoSS == <<"ABSENT">>                     \* no "SS_cons" key in seqence_information

\* AppOptions as main() sees it after parseCommandLine
AppOptions == [constrain : BOOLEAN, pseudoknot : BOOLEAN]

\* A default-constructed Motif (what std::vector<Motif>(n) holds)
NoStructure == [backend |-> "none", constraint |-> <<>>, alignment |-> <<>>]
NoProfiles  == [structure |-> NoStructure, cutoffs |-> <<>>]
Motif ==
    [header            |-> {},
     seedAlignment     |-> <<>>,
     interactionGraphs |-> <<>>,
     interactionPairs  |-> <<>>,
     consensusStructure |-> NoStructure,
     profiles          |-> NoProfiles]

\* The shapes of StockholmRecord the loop body can tell apart: which header
\* keys exist, the sequence lengths in container order, the SS_cons line,
\* and whether an external call fails on this family.
Shapes ==
    { [keys |-> {"AC", "ID"}, lens |-> <<Ceiling>>,
       ss |-> <<"<", ".", ">">>, fault |-> "none"],
      [keys |-> {"AC", "ID"}, lens |-> <<Ceiling, Ceiling + 1>>,
       ss |-> <<"(", "A", ")", "a">>, fault |-> "none"],
      [keys |-> {"AC", "ID"}, lens |-> <<Ceiling + 1, Ceiling>>,
       ss |-> <<"<", ".", ">">>, fault |-> "none"],
      [keys |-> {"ID"}, lens |-> <<Ceiling>>,
       ss |-> <<"<", ".", ">">>, fault |-> "none"],
      [keys |-> {"AC", "ID"}, lens |-> <<Ceiling - 1>>,
       ss |-> NoSS, fault |-> "none"],
      [keys |-> {"AC", "ID"}, lens |-> <<Ceiling>>,
       ss |-> <<"<", "<", ".">>, fault |-> "none"],
      [keys |-> {"AC", "ID"}, lens |-> <<Ceiling>>,
       ss |-> <<"<", ".", ">">>, fault |-> "predict"],
      [keys |-> {"AC", "ID"}, lens |-> <<Ceiling>>,
       ss |-> <<"<", ".", ">">>, fault |-> "partition"] }

\* The record read for family k: header values and alignment are its own.
StockholmRecord(k, s) ==
    [header    |-> {<<key, k>> : key \in s.keys},
     seqences  |-> s.lens,
     seqence_information |-> s.ss,
     alignment |-> <<k>>,
     fault     |-> s.fault]

\* std::map::at : does the key exist
HasKey(header, key) == \E p \in header : p[1] = key

\* ------------------------------------------------------- WUSS translation
OpenChars  == {"<", "(", "[", "{", "A", "B"}
CloseChars == {">", ")", "]", "}", "a", "b"}

PseudoChar(c) ==
    IF c \in OpenChars THEN "(" ELSE IF c \in CloseChars THEN ")" ELSE "."

\* every bracket class folded to ( and ), everything else unpaired
WUSStoPseudoBracket(ss) == [i \in 1..Len(ss) |-> PseudoChar(ss[i])]

RECURSIVE Depth(_, _)
\* nesting depth after the first n characters, -1 once a close has no open
Depth(b, n) ==
    IF n = 0 THEN 0
    ELSE LET d == Depth(b, n - 1)
         IN  IF d < 0 THEN -1
             ELSE IF b[n] = "(" THEN d + 1
             ELSE IF b[n] = ")" THEN d - 1
             ELSE d

Balanced(b) == Depth(b, Len(b)) = 0

\* ------------------------------------------------------ the loop's pieces
\* int seq_len = record.seqences.begin()->second.length();
SeqLen(record) == record.seqences[1]

\* if (seq_len > 1000) ... continue;
TooLong(record) == SeqLen(record) > Ceiling

\* if (options.pseudoknot) IPknotFold() else RNALibFold()
SelectBackendSwapped(opts) == IF opts.pseudoknot THEN "RNALib" ELSE "IPknot"
SelectBackend(opts) == IF opts.pseudoknot THEN "IPknot" ELSE "RNALib"

\* getConsensusStructure(record, structure, constraint, backend): the fold of
\* this alignment under this constraint by this backend
getConsensusStructure(record, constraint, backend) ==
    [backend |-> backend, constraint |-> constraint, alignment |-> record.alignment]

\* structurePartition(motif): one profile per cutoff of the motif's structure
structurePartition(m) ==
    [m EXCEPT !.profiles = [structure |-> m.consensusStructure, cutoffs |-> Cutoffs]]

\* char *constraint_bracket is declared inside the loop body: one per thread
ConstraintVarShared(w) == 1
ConstraintVar(w) == w

\* motifs[k] = rna_motif;
StoreMotifFirst(ms, k, m) == [ms EXCEPT ![1] = m]
StoreMotifAppend(ms, k, m) == Append(ms, m)
StoreMotif(ms, k, m) == [ms EXCEPT ![k] = m]

\* ------------------------------------------------------------------ state
VARIABLES
    options,            \* AppOptions
    records,            \* std::vector<StockholmRecord>
    motifs,             \* std::vector<Motif>
    status,             \* "running", "done" (return 0), "terminated"
    iter,               \* per thread: the k it runs, 0 when between iterations
    pc,                 \* per thread: the statement it is at
    rna_motif,          \* per thread: the local Motif
    constraint_bracket, \* per variable instance: the local pointer's target
    phase,              \* per k: "pending", "active", "skipped", "completed", "threw"
    buffer,             \* per k: the heap block of the constraint
    log,                \* per k: the calls its iteration has made, in order
    writes,             \* per slot: <<thread, k>> of every assignment to it
    dir,                \* script: index of the family directory in turn
    marker,             \* script: outcome of [ -s family.msa ] per directory
    number,             \* script: the counter, <<>> while unset
    report,             \* script: whether the last echo ran, and its number
    consensus,          \* partitioner: columns, base pairs, per-column confidence
    profiles            \* partitioner: the profiles built so far, one per cutoff

vars == <<options, records, motifs, status, iter, pc, rna_motif,
          constraint_bracket, phase, buffer, log, writes,
          dir, marker, number, report, consensus, profiles>>

scriptVars == <<dir, marker, number, report>>
partitionVars == <<consensus, profiles>>
mainVars == <<options, records, motifs, status, iter, pc, rna_motif,
              constraint_bracket, phase, buffer, log, writes>>

\* the state main() is in when it reaches the parallel loop
InitMain(opts, recs) ==
    /\ options = opts
    /\ records = recs
    /\ motifs = [k \in Families |-> Motif]
    /\ status = "running"
    /\ iter = [w \in Workers |-> 0]
    /\ pc = [w \in Workers |-> "idle"]
    /\ rna_motif = [w \in Workers |-> Motif]
    /\ constraint_bracket = [w \in Workers |-> NULL]
    /\ phase = [k \in Families |-> "pending"]
    /\ buffer = [k \in Families |-> "none"]
    /\ log = [k \in Families |-> <<>>]
    /\ writes = [k \in Families |-> <<>>]

\* declare -i number; "number = 0" is not an assignment: number stays unset
InitScript ==
    /\ dir = 1
    /\ marker = [k \in Families |-> "unchecked"]
    /\ number = <<>>
    /\ report = [printed |-> FALSE, text |-> <<>>]

NoConsensus == [ncols |-> 0, pairs |-> {}, conf |-> <<>>]

Init ==
    /\ \E opts \in AppOptions :
       \E f \in [Families -> Shapes] :
          InitMain(opts, [k \in Families |-> StockholmRecord(k, f[k])])
    /\ InitScript
    /\ consensus = NoConsensus
    /\ profiles = <<>>

\* std::terminate: the process is gone, and its threads' locals with it
Abort ==
    /\ status' = "terminated"
    /\ iter' = [w \in Workers |-> 0]
    /\ pc' = [w \in Workers |-> "idle"]
    /\ rna_motif' = [w \in Workers |-> Motif]
    /\ constraint_bracket' = [w \in Workers |-> NULL]

\* an exception leaves the structured block of the parallel region
Terminate(k) ==
    /\ Abort
    /\ phase' = [phase EXCEPT ![k] = "threw"]

\* the iteration of thread w is over: its locals go out of scope
EndIteration(w) ==
    /\ iter' = [iter EXCEPT ![w] = 0]
    /\ pc' = [pc EXCEPT ![w] = "idle"]
    /\ rna_motif' = [rna_motif EXCEPT ![w] = Motif]

Logged(k, events) == log' = [log EXCEPT ![k] = log[k] \o events]

\* slots whose content an assignment changed
Changed(old, new) ==
    {s \in DOMAIN new : s \notin DOMAIN old \/ new[s] # old[s]}

\* ---------------------------------------------------------------- actions
\* for (size_t k=0; ...): thread w takes an iteration nobody has taken,
\* prints the header and applies the length check.  Idle threads are
\* interchangeable, so the lowest-numbered one stands for any of them.
BeginIteration(w) ==
    /\ status = "running"
    /\ pc[w] = "idle"
    /\ \A v \in Workers : pc[v] = "idle" => w <= v
    /\ \E k \in Families :
        /\ phase[k] = "pending"
        /\ LET record == records[k] IN
           IF ~(HasKey(record.header, "AC") /\ HasKey(record.header, "ID"))
           THEN /\ Terminate(k)
           ELSE IF TooLong(record)
           THEN /\ phase' = [phase EXCEPT ![k] = "skipped"]
                /\ UNCHANGED <<status, iter, pc, rna_motif, constraint_bracket>>
           ELSE /\ phase' = [phase EXCEPT ![k] = "active"]
                /\ iter' = [iter EXCEPT ![w] = k]
                /\ pc' = [pc EXCEPT ![w] = "constraint"]
                /\ UNCHANGED <<status, rna_motif, constraint_bracket>>
    /\ UNCHANGED <<options, records, motifs, buffer, log, writes>>
    /\ UNCHANGED <<scriptVars, partitionVars>>

\* char *constraint_bracket = NULL; if (options.constrain) { new ...; WUSS... }
TranslateConstraint(w) ==
    /\ status = "running"
    /\ pc[w] = "constraint"
    /\ LET k == iter[w]
           record == records[k]
           v == ConstraintVar(w)
       IN  IF ~options.constrain
           THEN /\ constraint_bracket' = [constraint_bracket EXCEPT ![v] = NULL]
                /\ pc' = [pc EXCEPT ![w] = "motif"]
                /\ UNCHANGED <<status, iter, rna_motif, phase, buffer, log>>
           ELSE IF record.seqence_information = NoSS
           THEN /\ Terminate(k)
                /\ UNCHANGED <<buffer, log>>
           ELSE IF ~Balanced(WUSStoPseudoBracket(record.seqence_information))
           THEN /\ Terminate(k)
                /\ buffer' = [buffer EXCEPT ![k] = "allocated"]
                /\ Logged(k, <<"new">>)
           ELSE /\ constraint_bracket' =
                       [constraint_bracket EXCEPT
                           ![v] = WUSStoPseudoBracket(record.seqence_information)]
                /\ buffer' = [buffer EXCEPT ![k] = "allocated"]
                /\ Logged(k, <<"new", "translate">>)
                /\ pc' = [pc EXCEPT ![w] = "motif"]
                /\ UNCHANGED <<status, iter, rna_motif, phase>>
    /\ UNCHANGED <<options, records, motifs, writes>>
    /\ UNCHANGED <<scriptVars, partitionVars>>

\* Motif rna_motif; header and alignment copied, graphs resized, and the
\* loop over the sequences, whose body only counts
BuildMotif(w) ==
    /\ status = "running"
    /\ pc[w] = "motif"
    /\ LET k == iter[w]
           record == records[k]
           n == Len(record.seqences)
       IN  /\ rna_motif' = [rna_motif EXCEPT ![w] =
                  [Motif EXCEPT !.header = record.header,
                                !.seedAlignment = record.alignment,
                                !.interactionGraphs = [i \in 1..n |-> "empty"],
                                !.interactionPairs = [i \in 1..n |-> "empty"]]]
           /\ Logged(k, [i \in 1..n |-> "sequence"])
    /\ pc' = [pc EXCEPT ![w] = "predict"]
    /\ UNCHANGED <<options, records, motifs, status, iter, constraint_bracket,
                   phase, buffer, writes>>
    /\ UNCHANGED <<scriptVars, partitionVars>>

\* getConsensusStructure(record, rna_motif.consensusStructure, constraint, fold)
\* (the DEBUG_MSG before it is a logging macro, taken as compiled out)
PredictStructure(w) ==
    /\ status = "running"
    /\ pc[w] = "predict"
    /\ LET k == iter[w]
           record == records[k]
           backend == SelectBackend(options)
           constraint == constraint_bracket[ConstraintVar(w)]
       IN  /\ Logged(k, <<backend>>)
           /\ IF record.fault = "predict"
              THEN Terminate(k)
              ELSE /\ rna_motif' = [rna_motif EXCEPT ![w].consensusStructure =
                          getConsensusStructure(record, constraint, backend)]
                   /\ pc' = [pc EXCEPT ![w] = "partition"]
                   /\ UNCHANGED <<status, iter, constraint_bracket, phase>>
    /\ UNCHANGED <<options, records, motifs, buffer, writes>>
    /\ UNCHANGED <<scriptVars, partitionVars>>

\* structurePartition(rna_motif);
PartitionStructure(w) ==
    /\ status = "running"
    /\ pc[w] = "partition"
    /\ LET k == iter[w]
           record == records[k]
       IN  /\ Logged(k, <<"partition">>)
           /\ IF record.fault = "partition"
              THEN Terminate(k)
              ELSE /\ rna_motif' = [rna_motif EXCEPT
                                       ![w] = structurePartition(rna_motif[w])]
                   /\ pc' = [pc EXCEPT ![w] = "store"]
                   /\ UNCHANGED <<status, iter, constraint_bracket, phase>>
    /\ UNCHANGED <<options, records, motifs, buffer, writes>>
    /\ UNCHANGED <<scriptVars, partitionVars>>

\* motifs[k] = rna_motif;
Store(w) ==
    /\ status = "running"
    /\ pc[w] = "store"
    /\ LET k == iter[w]
           new == StoreMotif(motifs, k, rna_motif[w])
       IN  /\ motifs' = new
           /\ writes' = [s \in Families |->
                           IF s \in Changed(motifs, new)
                           THEN Append(writes[s], <<w, k>>) ELSE writes[s]]
           /\ Logged(k, <<"store">>)
    /\ pc' = [pc EXCEPT ![w] = "release"]
    /\ UNCHANGED <<options, records, status, iter, rna_motif,
                   constraint_bracket, phase, buffer>>
    /\ UNCHANGED <<scriptVars, partitionVars>>

\* if (options.constrain) free(constraint_bracket);  -- the block came from
\* new char[]: handing it to free() is undefined; with the usual allocator
\* the block is released, a checking allocator stops the program
Release(w) ==
    /\ status = "running"
    /\ pc[w] = "release"
    /\ LET k == iter[w]
           v == ConstraintVar(w)
       IN  IF ~options.constrain
           THEN /\ phase' = [phase EXCEPT ![k] = "completed"]
                /\ EndIteration(w)
                /\ UNCHANGED <<status, buffer, log, constraint_bracket>>
           ELSE \E outcome \in {"released", "mismatch"} :
                /\ buffer' = [buffer EXCEPT ![k] = outcome]
                /\ Logged(k, <<"free">>)
                /\ IF outcome = "released"
                   THEN /\ phase' = [phase EXCEPT ![k] = "completed"]
                        /\ EndIteration(w)
                        /\ constraint_bracket' =
                               [constraint_bracket EXCEPT ![v] = NULL]
                        /\ UNCHANGED status
                   ELSE /\ Abort
                        /\ UNCHANGED phase
    /\ UNCHANGED <<options, records, motifs, writes>>
    /\ UNCHANGED <<scriptVars, partitionVars>>

\* the implicit barrier at the end of the parallel for, then return 0
Finish ==
    /\ status = "running"
    /\ \A k \in Families : phase[k] \in {"skipped", "completed"}
    /\ status' = "done"
    /\ UNCHANGED <<options, records, motifs, iter, pc, rna_motif,
                   constraint_bracket, phase, buffer, log, writes>>
    /\ UNCHANGED <<scriptVars, partitionVars>>

\* ((number++)) on a variable declared -i: unset counts as 0
Increment(n) == IF n = <<>> THEN <<1>> ELSE <<n[1] + 1>>

\* for full in .../gen_pos/*: if [ -s "$full"/"$filename".msa ] ((number++))
\* The script shares nothing with the binary; it is run here once the binary
\* has stopped.
ScriptFamily ==
    /\ status # "running"
    /\ dir \in Families
    /\ \E present \in BOOLEAN :
        /\ marker' = [marker EXCEPT ![dir] = IF present THEN "present" ELSE "absent"]
        /\ number' = IF present THEN Increment(number) ELSE number
    /\ dir' = dir + 1
    /\ UNCHANGED report
    /\ UNCHANGED <<mainVars, partitionVars>>

\* echo "${number} families processed"
ScriptReport ==
    /\ status # "running"
    /\ dir = NumFamilies + 1
    /\ ~report.printed
    /\ report' = [printed |-> TRUE, text |-> number]
    /\ UNCHANGED <<dir, marker, number>>
    /\ UNCHANGED <<mainVars, partitionVars>>

Next ==
    \/ \E w \in Workers : BeginIteration(w)
    \/ \E w \in Workers : TranslateConstraint(w)
    \/ \E w \in Workers : BuildMotif(w)
    \/ \E w \in Workers : PredictStructure(w)
    \/ \E w \in Workers : PartitionStructure(w)
    \/ \E w \in Workers : Store(w)
    \/ \E w \in Workers : Release(w)
    \/ Finish

\* the binary alone
Spec == Init /\ [][Next]_vars

\* the binary and the script that reports the number of families
NextBatch ==
    \/ Next
    \/ ScriptFamily
    \/ ScriptReport

SpecBatch == Init /\ [][NextBatch]_vars

\* ------------------------------------------------- structure partitioner
\* per-column confidence values, in hundredths like the cutoffs
ConfLevels == {0, 9, 20}

\* a structure: base pairs (i, j), i < j, no column in two pairs
IsStructure(n, ps) ==
    /\ \A p \in ps : p[1] < p[2]
    /\ \A p, q \in ps : p # q => {p[1], p[2]} \cap {q[1], q[2]} = {}

Structures(n) ==
    {ps \in SUBSET {p \in (1..n) \X (1..n) : p[1] < p[2]} : IsStructure(n, ps)}

\* the pairs a profile sees at a cutoff: a column below the cutoff counts
\* as unpaired at that cutoff, and so its pair is not a pair of the profile
ViewPairs(c, cutoff) ==
    {p \in c.pairs : c.conf[p[1]] >= cutoff /\ c.conf[p[2]] >= cutoff}

PairedCols(ps) == UNION {{p[1], p[2]} : p \in ps}

\* the columns the loops of a profile are made of
UnpairedColsOfStructure(c, cutoff) ==
    {x \in 1..c.ncols : x \notin PairedCols(c.pairs)}
UnpairedCols(c, cutoff) ==
    {x \in 1..c.ncols : x \notin PairedCols(ViewPairs(c, cutoff))}

\* the maximal stack holding pair p: (i, j) and (i+1, j-1) share a stem
Stack(p, ps) ==
    {q \in ps :
        \E d \in 0..Cardinality(ps) :
            \/ /\ q = <<p[1] + d, p[2] - d>>
               /\ \A e \in 0..d : <<p[1] + e, p[2] - e>> \in ps
            \/ /\ q = <<p[1] - d, p[2] + d>>
               /\ \A e \in 0..d : <<p[1] - e, p[2] + e>> \in ps}

Stems(ps) == {Stack(p, ps) : p \in ps}

\* the maximal runs of unpaired columns, as <<first, last>>
Runs(unp) ==
    {r \in unp \X unp :
        /\ r[1] <= r[2]
        /\ \A x \in r[1]..r[2] : x \in unp
        /\ (r[1] - 1) \notin unp
        /\ (r[2] + 1) \notin unp}

\* the pairs around a run, and the stems that open directly inside the
\* innermost of them
Enclosing(r, ps) == {p \in ps : p[1] < r[1] /\ r[2] < p[2]}

Innermost(r, ps) ==
    CHOOSE p \in Enclosing(r, ps) : \A q \in Enclosing(r, ps) : q[1] <= p[1]

Branches(p, ps) ==
    {q \in ps :
        /\ p[1] < q[1] /\ q[2] < p[2]
        /\ ~\E m \in ps : /\ p[1] < m[1] /\ m[2] < p[2]
                          /\ m[1] < q[1] /\ q[2] < m[2]}

RunKind(r, ps) ==
    IF Enclosing(r, ps) = {} THEN "exterior"
    ELSE IF <<r[1] - 1, r[2] + 1>> \in ps THEN "hairpin"
    ELSE IF Cardinality(Branches(Innermost(r, ps), ps)) >= 2 THEN "junction"
    ELSE "internal"

\* partition at one cutoff: stems and the loops between them
Profile(c, cutoff) ==
    LET ps == ViewPairs(c, cutoff) IN
    [cutoff |-> cutoff,
     elements |->
        {[kind |-> "stem", cols |-> PairedCols(st)] : st \in Stems(ps)}
        \cup
        {[kind |-> RunKind(r, ps), cols |-> r[1]..r[2]] :
            r \in Runs(UnpairedCols(c, cutoff))}]

\* the partitioner's input: any structure with any column statistics
InitPartition ==
    /\ InitMain([constrain |-> FALSE, pseudoknot |-> FALSE],
                [k \in Families |-> StockholmRecord(k, CHOOSE s \in Shapes : TRUE)])
    /\ InitScript
    /\ \E n \in 1..MaxCols :
       \E ps \in Structures(n) :
       \E cf \in [1..n -> ConfLevels] :
          consensus = [ncols |-> n, pairs |-> ps, conf |-> cf]
    /\ profiles = <<>>

\* for each cutoff of the list, in order: one more profile
PartitionCutoff ==
    /\ Len(profiles) < Len(Cutoffs)
    /\ profiles' = Append(profiles, Profile(consensus, Cutoffs[Len(profiles) + 1]))
    /\ UNCHANGED <<mainVars, scriptVars, consensus>>

NextPartition == PartitionCutoff

SpecPartition == InitPartition /\ [][NextPartition]_vars

\* ------------------------------------------------------------ properties
Count(events, e) == Cardinality({i \in 1..Len(events) : events[i] = e})

Stored(k) == Count(log[k], "store") > 0

RECURSIVE Longest(_)
\* the length of the longest sequence of a record
Longest(lens) ==
    IF Len(lens) = 0 THEN 0
    ELSE LET rest == Longest(Tail(lens))
         IN  IF Head(lens) > rest THEN Head(lens) ELSE rest

\* what one thread running the body alone leaves in the slot of a record
Alone(record, opts) ==
    IF record.seqences[1] > Ceiling THEN Motif
    ELSE [header |-> record.header,
          seedAlignment |-> record.alignment,
          interactionGraphs |-> [i \in 1..Len(record.seqences) |-> "empty"],
          interactionPairs |-> [i \in 1..Len(record.seqences) |-> "empty"],
          consensusStructure |->
              [backend |-> IF opts.pseudoknot THEN "IPknot" ELSE "RNALib",
               constraint |-> IF opts.constrain
                              THEN WUSStoPseudoBracket(record.seqence_information)
                              ELSE NULL,
               alignment |-> record.alignment],
          profiles |->
              [structure |->
                  [backend |-> IF opts.pseudoknot THEN "IPknot" ELSE "RNALib",
                   constraint |-> IF opts.constrain
                                  THEN WUSStoPseudoBracket(record.seqence_information)
                                  ELSE NULL,
                   alignment |-> record.alignment],
               cutoffs |-> Cutoffs]]

\* two slots were filled by two different threads
TwoThreadsStored ==
    \E a, b \in Families :
        /\ a # b
        /\ Len(writes[a]) = 1 /\ Len(writes[b]) = 1
        /\ writes[a][1][1] # writes[b][1][1]

\* C1: every assignment to slot s of the result vector is made by the
\* iteration of family s, no slot is assigned twice, and once the loop has
\* finished every filled slot k carries the header and the seed alignment
\* of record k.
C1_DisjointIndexedWrites ==
    /\ \A s \in Families :
          /\ Len(writes[s]) <= 1
          /\ \A i \in 1..Len(writes[s]) : writes[s][i][2] = s
    /\ status = "done" =>
          \A k \in Families :
              motifs[k] # Motif =>
                  /\ motifs[k].header = records[k].header
                  /\ motifs[k].seedAlignment = records[k].alignment

C1_Witness ==
    /\ status = "done"
    /\ TwoThreadsStored
    /\ \A k \in Families : motifs[k] # Motif

\* C2: a failure raised while a family is assembled never stops the batch:
\* the family is skipped and the other families are still processed.
C2_FailureIsolated ==
    \A k \in Families : phase[k] = "threw" => status # "terminated"

\* C3: a family whose iteration has passed the length check was skipped
\* exactly if the longest sequence of its record is longer than the ceiling.
C3_SkipIffLongestExceeds ==
    \A k \in Families :
        phase[k] \in {"skipped", "active", "completed"} =>
            (phase[k] = "skipped" <=> Longest(records[k].seqences) > Ceiling)

\* C4: the result vector always has one slot per input record, and once
\* the loop has finished the slot of every skipped family still holds the
\* default Motif and no step of that family's iteration has run.
C4_PreSizedPlaceholders ==
    /\ Len(motifs) = Len(records)
    /\ status = "done" =>
          \A k \in Families :
              phase[k] = "skipped" =>
                  /\ motifs[k] = Motif
                  /\ log[k] = <<>>
                  /\ buffer[k] = "none"
                  /\ writes[k] = <<>>

C4_Witness ==
    /\ status = "done"
    /\ \E k \in Families : phase[k] = "skipped"
    /\ \E k \in Families : Stored(k)

\* C5: after the loop has finished and the script has printed its count,
\* the count is the number of families that were found present and whose
\* Motif was assembled.  (An unset counter prints as the empty string; it
\* is read as 0 here.)
C5_CountIsAssembled ==
    (status = "done" /\ report.printed) =>
        (IF report.text = <<>> THEN 0 ELSE report.text[1]) =
            Cardinality({k \in Families :
                            marker[k] = "present" /\ motifs[k] # Motif})

\* C6: once the loop has finished, slot k holds what the body alone makes
\* of record k and the options, whatever the threads' interleaving was; a
\* slot never holds anything but that or the default Motif.
C6_ScheduleIndependent ==
    /\ \A k \in Families : motifs[k] \in {Motif, Alone(records[k], options)}
    /\ status = "done" =>
          \A k \in Families : motifs[k] = Alone(records[k], options)

C6_Witness ==
    /\ status = "done"
    /\ options.constrain
    /\ TwoThreadsStored
    /\ \E a, b \in Families :
          /\ Stored(a) /\ Stored(b)
          /\ motifs[a].consensusStructure.constraint
                 # motifs[b].consensusStructure.constraint

\* C7: in every profile the partitioner has produced, every alignment
\* column lies in exactly one structural element, and no element reaches
\* outside the alignment.
C7_ProfilesCoverColumns ==
    \A n \in 1..Len(profiles) :
        /\ \A x \in 1..consensus.ncols :
              Cardinality({e \in profiles[n].elements : x \in e.cols}) = 1
        /\ \A e \in profiles[n].elements :
              e.cols # {} /\ e.cols \subseteq 1..consensus.ncols

C7_Witness ==
    /\ Len(profiles) = Len(Cutoffs)
    /\ consensus.ncols = MaxCols
    /\ \E n \in 1..Len(profiles) :
          \E e \in profiles[n].elements : e.kind = "stem"
    /\ profiles[1] # profiles[Len(profiles)]

BackendCalls(k) == Count(log[k], "IPknot") + Count(log[k], "RNALib")

\* C8: no family has both backends called, a family whose Motif was stored
\* had exactly one backend call, of IPknot if options.pseudoknot is set and
\* of RNALib otherwise, and no step changes the options.
C8_OneBackendOnce ==
    /\ [](\A k \in Families :
            /\ BackendCalls(k) <= 1
            /\ Stored(k) =>
                  /\ BackendCalls(k) = 1
                  /\ Count(log[k], IF options.pseudoknot
                                   THEN "IPknot" ELSE "RNALib") = 1)
    /\ [][options' = options]_vars

C8_Witness ==
    /\ status = "done"
    /\ options.pseudoknot
    /\ \E k \in Families : Stored(k) /\ Count(log[k], "IPknot") = 1

\* C9: without constraint mode no buffer is built or released; with it the
\* buffer of a family is built at most once, and the release at the end of
\* the iteration releases it: every completed family's buffer is released,
\* exactly once.
C9_ConstraintLifecycle ==
    \A k \in Families :
        /\ ~options.constrain =>
              /\ buffer[k] = "none"
              /\ Count(log[k], "new") = 0 /\ Count(log[k], "free") = 0
        /\ Count(log[k], "new") <= 1 /\ Count(log[k], "free") <= 1
        /\ Count(log[k], "free") = 1 => buffer[k] = "released"
        /\ (phase[k] = "completed" /\ options.constrain) =>
              Count(log[k], "free") = 1

\* C10: the calls of a family whose Motif was stored are, in this order:
\* the translation (in constraint mode), the prediction, one interaction
\* graph per sequence, the partition, the store.
C10_StepOrder ==
    \A k \in Families :
        Stored(k) =>
            \E rest \in {<<>>, <<"free">>} :
                log[k] =
                    (IF options.constrain THEN <<"new", "translate">> ELSE <<>>)
                    \o <<IF options.pseudoknot THEN "IPknot" ELSE "RNALib">>
                    \o [i \in 1..Len(records[k].seqences) |-> "createInteractions"]
                    \o <<"partition", "store">>
                    \o rest

====
